---------------------------- MODULE Spec2Model ----------------------------
(***************************************************************************)
(* A model of ftl's shared, memoised lazy cell (include/ftl/lazy.h) and of *)
(* the either transformer (include/ftl/either_trans.h) instantiated over   *)
(* the lazy monad, M = lazy<T>, so that Met = lazy<either<L,T>>.           *)
(*                                                                         *)
(* The heap `cells` holds the objects the shared_ptrs of lazy point to;    *)
(* a handle (a lazy<T> variable of the caller) is an index into it.        *)
(***************************************************************************)
EXTENDS Integers, Sequences, FiniteSets, TLC

\* ------------------------------------------------------------ bounds
MaxCells == 6        \* cells the heap may hold, temporaries included
NumHandles == 2      \* lazy variables the caller declares
NumETHandles == 3    \* eitherT variables the caller declares
NumCtx == 2          \* execution contexts that force without synchronisation
MaxVal == 1          \* literals range over 0..MaxVal
MaxLen == 3          \* elements of the list an eitherT over a list wraps

Vals == 0..MaxVal

\* ------------------------------------------------------------ values
\* A value of type T (an int), or of type either<L,T> with L the string
\* monoid; one record shape for all, so that any two values compare.
V(n) == [tag |-> "val", n |-> n, l |-> <<>>]

make_left(l) == [tag |-> "Left", n |-> 0, l |-> l]

make_right(n) == [tag |-> "Right", n |-> n, l |-> <<>>]

\* either's explicit operator bool: true for a right value
IsRight(e) == e.tag = "Right"

\* ------------------------------------------------------------ functions
\* A function object stored by value.  name is the lambda (or "user" for a
\* function of the caller), arg the function it captured ("f": the caller's
\* function f itself, "hoist": the hoisting lambda around f), f the
\* caller's function, capv / capc a captured value / a captured lazy.
Fn(name, arg, f, capv, capc) ==
    [name |-> name, arg |-> arg, f |-> f, capv |-> capv, capc |-> capc]

NoFn == Fn("-", "-", "-", V(0), 0)

UserFn(f) == Fn("user", "f", f, V(0), 0)

\* The caller's pure functions T -> U.
inc(n) == n + 1

dbl(n) == 2 * n

add(a, b) == a + b

sub(a, b) == a - b

\* The caller's functions of two arguments, by name.
UserApply2(f, a, b) == IF f = "add" THEN add(a, b) ELSE sub(a, b)

\* compose(g, f), the function t -> g(f(t)), by name
compose(g, f) ==
    CASE g = "inc" /\ f = "inc" -> "inc.inc"
      [] g = "inc" /\ f = "dbl" -> "inc.dbl"
      [] g = "dbl" /\ f = "inc" -> "dbl.inc"
      [] g = "dbl" /\ f = "dbl" -> "dbl.dbl"
      [] OTHER -> "-"

\* The caller's functions of one argument, by name.
UserApply(f, n) ==
    CASE f = "id" -> n
      [] f = "inc" -> inc(n)
      [] f = "dbl" -> dbl(n)
      [] f = "inc.inc" -> inc(inc(n))
      [] f = "inc.dbl" -> inc(dbl(n))
      [] f = "dbl.dbl" -> dbl(dbl(n))
      [] f = "dbl.inc" -> dbl(inc(n))

\* ------------------------------------------------------------ generators
\* The function<T> a cell is constructed with: kind names the lambda, the
\* other fields are what the lambda captured (lazies by copy: they share
\* the cell, so a capture is the cell's index).
Gen(kind, f, a, b, v, args) ==
    [kind |-> kind, f |-> f, a |-> a, b |-> b, v |-> v, args |-> args]

NoGen == Gen("-", NoFn, 0, 0, V(0), <<>>)

\* either<function<T>,T> behind the shared_ptr: st is which side is active,
\* left the generator, right the value.  ty is the static type of the
\* lazy ("T" for lazy<T>, "E" for lazy<either<L,T>>).  Ghost fields: origin
\* (the generator the cell was constructed with), snap (the caller's
\* variable when the cell was constructed), runs (invocations of the
\* generator), apps (applications of the caller's function made by the
\* generator), forced (force() was called on the cell), by (the cell
\* whose generator constructed this one, 0 for the caller).
NewCell(gen, ty, x, by) ==
    [st |-> "deferred", left |-> gen, right |-> V(0), ty |-> ty,
     origin |-> gen, snap |-> x, runs |-> 0, apps |-> 0, forced |-> FALSE,
     by |-> by]

\* A heap under evaluation: the cells, the caller's variable x, the events
\* of the running operation, and the cell whose generator is running (0:
\* the caller's own code).
Heap(cs, x, log) == [cells |-> cs, x |-> x, log |-> log, cur |-> 0]

\* An event: a generator starts ("run"), a cell's value is stored
\* ("ready"), a function of the caller is applied ("app"); by is the cell
\* whose generator caused it.
Ev(ev, c, by) == [ev |-> ev, c |-> c, by |-> by]

Emit(h, ev, c) == [h EXCEPT !.log = Append(@, Ev(ev, c, h.cur))]

\* A function of the caller is applied inside the generator of cell by.
Applied(h, by) == [Emit(h, "app", by) EXCEPT !.cells[by].apps = @ + 1]

\* new either<function<T>,T>(make_left<T>(f))
Alloc(h, gen, ty) ==
    [h |-> [h EXCEPT !.cells = Append(@, NewCell(gen, ty, h.x, h.cur))],
     c |-> Len(h.cells) + 1]

\* ------------------------------------------------------------ lazy
\* explicit lazy(const function<T>& f)
lazy(h, gen, ty) == Alloc(h, gen, ty)

\* The tuple t the generator of defer captured ([f,t]): the copies made at
\* the call of defer.
tuple_ByRef(h, g) == <<h.x, g.args[2]>>

tuple(h, g) == g.args

\* defer(f, args...): the arguments are copied into a tuple at the call
defer(h, f, args) == lazy(h, Gen("defer", UserFn(f), 0, 0, V(0), args), "T")

pure_Eager(h, t, ty) ==
    LET r == lazy(h, Gen("pure", NoFn, 0, 0, t, <<>>), ty)
    IN  [r EXCEPT !.h.cells[r.c].st = "ready", !.h.cells[r.c].right = t,
                  !.h.cells[r.c].left = NoGen]

\* monad<lazy<T>>::pure
pure(h, t, ty) == lazy(h, Gen("pure", NoFn, 0, 0, t, <<>>), ty)

\* monad<lazy<T>>::map
map(h, f, l, ty) == lazy(h, Gen("map", f, l, 0, V(0), <<>>), ty)

\* monad<lazy<T>>::bind
bind(h, l, f, ty) == lazy(h, Gen("bind", f, l, 0, V(0), <<>>), ty)

\* monoid<lazy<T>>::id, with T the integers under addition
id(h) == lazy(h, Gen("id", NoFn, 0, 0, V(0), <<>>), "T")

\* monoid<lazy<T>>::append
append(h, l1, l2) == lazy(h, Gen("append", NoFn, l1, l2, V(0), <<>>), "T")

\* A result of an evaluation: the heap after it and the value (v) or the
\* lazy handle (c) it yields.
Res(h, v, c) == [h |-> h, v |-> v, c |-> c]

\* The caller's continuations T -> lazy<U> for monad<lazy<T>>::bind:
\* "pureInc" returns pure(t+1), "pureDbl" pure(2t), "deferAdd" returns
\* defer(add, t, 1), "captured" returns a copy of a lazy the closure holds.
UserK(h, fn, n) ==
    CASE fn.f = "pureInc" -> pure(h, V(inc(n)), "T")
      [] fn.f = "pureDbl" -> pure(h, V(dbl(n)), "T")
      [] fn.f = "deferAdd" -> defer(h, "add", <<n, 1>>)
      [] fn.f = "captured" -> [h |-> h, c |-> fn.capc]

\* The caller's functions T -> either<L,U>: t -> Right(g(t)) for g "inc" or
\* "dbl".
UserE(f, n) == make_right(UserApply(f, n))

\* ------------------------------------------------------------ eitherT
\* eitherT<L,M> with M = lazy<T> wraps a Met = lazy<either<L,T>>: an
\* eitherT is the handle of a cell of type "E".

\* monad<eitherT<L,M>>::pure
eitherT_pure(h, n) == pure(h, make_right(n), "E")

\* The caller's functions T -> eitherT<L,M>: t -> eitherT.pure(g(t)) for g
\* "inc" or "dbl".
UserET(h, f, n) == eitherT_pure(h, UserApply(f, n))

\* functor<either<L,T>>::map, f % e: f is applied to a right value, a left
\* value is returned as it is.
either_map(h, fn, e, by) ==
    IF IsRight(e)
    THEN Res(Applied(h, by), make_right(UserApply(fn.f, e.n)), 0)
    ELSE Res(h, make_left(e.l), 0)

\* monad<either<L,T>>::bind, e >>= f: f is applied to a right value, a left
\* value is returned as it is.
either_bind(h, fn, e, by) ==
    IF IsRight(e)
    THEN Res(Applied(h, by), UserE(fn.f, e.n), 0)
    ELSE Res(h, make_left(e.l), 0)

\* aPure<either<L,U>>(): the function that is either's pure, u -> Right(u)
aPure(v) == make_right(v.n)

\* liftM(f, m): the map of the monad m is in
liftM(h, fn, l, ty) == map(h, fn, l, ty)

\* monad<eitherT<L,M>>::map: [f](const either<L,T>& e){ return f % e; } % *e
eitherT_map(h, f, e) ==
    map(h, Fn("eitherMap", "f", f, V(0), 0), e, "E")

liftK_NoCheck(h, fn, e, by) ==
    LET r == UserK(Applied(h, by), fn, e.n)
        m == map(r.h, Fn("aPure", "-", "-", V(0), 0), r.c, "E")
    IN  Res(m.h, V(0), m.c)

\* The lambda of bind_helper<M2>::bind (lift): f returns a lazy<U>
liftK(h, fn, e, by) ==
    IF IsRight(e)
    THEN LET r == UserK(Applied(h, by), fn, e.n)
             m == map(r.h, Fn("aPure", "-", "-", V(0), 0), r.c, "E")
         IN  Res(m.h, V(0), m.c)
    ELSE LET p == pure(h, make_left(e.l), "E")
         IN  Res(p.h, V(0), p.c)

hoistLam_NoBind(h, fn, n, by) ==
    LET p == pure(h, make_right(n), "E")
    IN  Res(p.h, V(0), p.c)

\* The lambda of bind_helper<either<L,U>>::bind (hoist): make_right<L>(t)
\* >>= f is f(t), embedded by pure
hoistLam(h, fn, n, by) ==
    LET r == either_bind(h, fn, make_right(n), by)
        p == pure(r.h, r.v, "E")
    IN  Res(p.h, V(0), p.c)

\* The lambda of bind_helper<eitherT<L,M2>>::bind (transformer): f returns
\* an eitherT, be it the caller's function or the hoisting lambda
transK(h, fn, e, by) ==
    IF IsRight(e)
    THEN IF fn.arg = "hoist"
         THEN hoistLam(h, fn, e.n, by)
         ELSE LET r == UserET(Applied(h, by), fn.f, e.n)
              IN  Res(r.h, V(0), r.c)
    ELSE LET p == pure(h, make_left(e.l), "E")
         IN  Res(p.h, V(0), p.c)

\* bind_helper<M2>::bind: *e >>= lambda
bind_lift(h, e, f) == bind(h, e, Fn("lift", "f", f, V(0), 0), "E")

\* bind_helper<eitherT<L,M2>>::bind: *e >>= lambda
bind_trans(h, e, fn) == bind(h, e, fn, "E")

\* bind_helper<either<L,U>>::bind: e >>= lambda, a bind of the transformer
\* with the hoisting lambda as its function
bind_hoist(h, e, f) == bind_trans(h, e, Fn("trans", "hoist", f, V(0), 0))

\* monoidA<eitherT<L,M>>::fail: the identity of L is the empty string
fail(h) == pure(h, make_left(<<>>), "E")

orDoIn_Swapped(e, e2) ==
    IF IsRight(e2) THEN e2 ELSE make_left(e2.l \o e.l)

\* The inner lambda of orDo, which captured e: ^ is the append of L
orDoIn(e, e2) ==
    IF IsRight(e2) THEN e2 ELSE make_left(e.l \o e2.l)

\* monoidA<eitherT<L,M>>::orDo: *e1 >>= lambda, which captured e2
orDo(h, e1, e2) == bind(h, e1, Fn("orDo", "-", "-", V(0), e2), "E")

\* ---- foldable<eitherT<L,M>>, over a foldable M whose Met is a list of
\* either<L,T>; U is int.

\* What an ill-formed call yields: the instantiation does not compile and
\* there is no result.
IllFormed == [tag |-> "ill-formed", n |-> 0, l |-> <<>>]

IsEither(v) == v.tag \in {"Left", "Right"}

\* The lambda of foldl, [f,z](const either<L,T>& e, U z): its first
\* parameter is the either, its second the accumulator.
foldl_lambda(f, a1, a2) ==
    IF ~IsEither(a1) \/ a2.tag # "val" THEN IllFormed
    ELSE IF IsRight(a1) THEN V(UserApply2(f, a2.n, a1.n))
    ELSE a2

\* The lambda of foldr, [f,z](const either<L,T>& e, U z)
foldr_lambda(f, a1, a2) ==
    IF ~IsEither(a1) \/ a2.tag # "val" THEN IllFormed
    ELSE IF IsRight(a1) THEN V(UserApply2(f, a1.n, a2.n))
    ELSE a2

\* foldable<Met>::foldl(fn, z, m) of a list: fn(fn(fn(z, m1), m2), ...),
\* the accumulator passed first
RECURSIVE Met_foldl(_, _, _)
Met_foldl(f, z, m) ==
    IF m = <<>> \/ z = IllFormed THEN z
    ELSE Met_foldl(f, foldl_lambda(f, z, Head(m)), Tail(m))

\* foldable<Met>::foldr(fn, z, m) of a list: fn(m1, fn(m2, ... fn(mn, z))),
\* the element passed first
RECURSIVE Met_foldr(_, _, _)
Met_foldr(f, z, m) ==
    IF m = <<>> THEN z
    ELSE LET r == Met_foldr(f, z, Tail(m))
         IN  IF r = IllFormed THEN r ELSE foldr_lambda(f, Head(m), r)

\* z * me, the expression the source writes as one argument ("z" and
\* "*me" on two lines, no comma between them, which parses as a product):
\* U has no operator* that takes an eitherT.
times(z, me) == IllFormed

\* A call of foldable<Met>::foldl or foldr, which take (fn, z, m).
CallFold(dir, f, args) ==
    IF Len(args) # 2 \/ args[1] = IllFormed THEN IllFormed
    ELSE IF dir = "foldl" THEN Met_foldl(f, args[1], args[2])
    ELSE Met_foldr(f, args[1], args[2])

\* foldable<eitherT<L,M>>::foldl: foldable<Met>::foldl(lambda, z * me)
eitherT_foldl(f, z, me) == CallFold("foldl", f, <<times(z, me)>>)

\* foldable<eitherT<L,M>>::foldr: foldable<Met>::foldr(lambda, z * me)
eitherT_foldr(f, z, me) == CallFold("foldr", f, <<times(z, me)>>)

RECURSIVE force(_, _, _), deref(_, _, _), Invoke(_, _, _)
RECURSIVE ApplyFn(_, _, _, _), ApplyK(_, _, _, _, _)

orDoK_Eager(h, fn, e, by, lr) ==
    LET r == deref(h, fn.capc, lr)
    IN  IF IsRight(e)
        THEN LET p == pure(r.h, e, "E")
             IN  Res(p.h, V(0), p.c)
        ELSE LET p == pure(r.h, orDoIn(e, r.v), "E")
             IN  Res(p.h, V(0), p.c)

\* The outer lambda of orDo, which captured e2: liftM is M's map
orDoK(h, fn, e, by, lr) ==
    IF IsRight(e)
    THEN LET p == pure(h, e, "E")
         IN  Res(p.h, V(0), p.c)
    ELSE LET m == liftM(h, Fn("orDoIn", "-", "-", e, 0), fn.capc, "E")
         IN  Res(m.h, V(0), m.c)

ApplyFn_Twice(h, fn, v, by) ==
    CASE fn.name = "user" ->
            Res(Applied(h, by),
                V(UserApply(fn.f, UserApply(fn.f, v.n))), 0)
      [] fn.name = "eitherMap" ->
            either_map(h, fn, either_map(h, fn, v, by).v, by)
      [] fn.name = "aPure" -> Res(h, aPure(v), 0)
      [] fn.name = "orDoIn" -> Res(h, orDoIn(fn.capv, v), 0)

\* Application of the function object a map captured, inside the
\* generator of cell by.
ApplyFn(h, fn, v, by) ==
    CASE fn.name = "user" ->
            Res(Applied(h, by), V(UserApply(fn.f, v.n)), 0)
      [] fn.name = "eitherMap" -> either_map(h, fn, v, by)
      [] fn.name = "aPure" -> Res(h, aPure(v), 0)
      [] fn.name = "orDoIn" -> Res(h, orDoIn(fn.capv, v), 0)

ApplyK_Twice(h, fn, v, by, lr) ==
    CASE fn.name = "user" ->
            LET r1 == UserK(Applied(h, by), fn, v.n)
                r  == UserK(Applied(r1.h, by), fn, v.n)
            IN  Res(r.h, V(0), r.c)
      [] fn.name = "lift" -> liftK(h, fn, v, by)
      [] fn.name = "trans" -> transK(h, fn, v, by)
      [] fn.name = "orDo" -> orDoK(h, fn, v, by, lr)

\* Application of the function object a bind captured, which returns a
\* lazy, inside the generator of cell by.
ApplyK(h, fn, v, by, lr) ==
    CASE fn.name = "user" ->
            LET r == UserK(Applied(h, by), fn, v.n)
            IN  Res(r.h, V(0), r.c)
      [] fn.name = "lift" -> liftK(h, fn, v, by)
      [] fn.name = "trans" -> transK(h, fn, v, by)
      [] fn.name = "orDo" -> orDoK(h, fn, v, by, lr)

\* val->left()(): the generator of cell c runs.  lr is the order in which
\* the build evaluates the two operands of a call or of a comparison
\* (unspecified in C++).
Invoke(h, c, lr) ==
    LET g  == h.cells[c].left
        h0 == [Emit(h, "run", c) EXCEPT !.cells[c].runs = @ + 1, !.cur = c]
    IN  CASE g.kind = "gen" -> Res(h0, g.v, 0)
          [] g.kind = "pure" -> Res(h0, g.v, 0)
          [] g.kind = "id" -> Res(h0, V(0), 0)
          [] g.kind = "defer" ->
                LET h1 == Applied(h0, c)
                    t  == tuple(h0, g)
                IN  Res(h1, V(add(t[1], t[2])), 0)
          [] g.kind = "map" ->
                LET r1 == deref(h0, g.a, lr)
                IN  ApplyFn(r1.h, g.f, r1.v, c)
          [] g.kind = "bind" ->
                LET r1 == deref(h0, g.a, lr)
                    r2 == ApplyK(r1.h, g.f, r1.v, c, lr)
                IN  deref(r2.h, r2.c, lr)
          [] g.kind = "append" ->
                LET r1 == deref(h0, IF lr THEN g.a ELSE g.b, lr)
                    r2 == deref(r1.h, IF lr THEN g.b ELSE g.a, lr)
                IN  Res(r2.h, V(r1.v.n + r2.v.n), 0)

force_NoCheck(h, c, lr) ==
    LET h0 == [h EXCEPT !.cells[c].forced = TRUE,
                        !.cells[c].left = h.cells[c].origin]
        r  == Invoke(h0, c, lr)
    IN  [Emit([r.h EXCEPT !.cur = h.cur], "ready", c) EXCEPT
           !.cells[c].st = "ready",
           !.cells[c].right = r.v,
           !.cells[c].left = NoGen]

force_NoStore(h, c, lr) ==
    LET h0 == [h EXCEPT !.cells[c].forced = TRUE]
    IN  IF h0.cells[c].st = "ready"
        THEN h0
        ELSE [Invoke(h0, c, lr).h EXCEPT !.cur = h.cur]

\* lazy::force
force(h, c, lr) ==
    LET h0 == [h EXCEPT !.cells[c].forced = TRUE]
    IN  IF h0.cells[c].st = "ready"
        THEN h0
        ELSE LET r == Invoke(h0, c, lr)
             IN  [Emit([r.h EXCEPT !.cur = h.cur], "ready", c) EXCEPT
                    !.cells[c].st = "ready",
                    !.cells[c].right = r.v,
                    !.cells[c].left = NoGen]

\* lazy::operator*
deref(h, c, lr) ==
    LET h1 == force(h, c, lr)
    IN  Res(h1, h1.cells[c].right, 0)

copy_Deep(h, c) ==
    [h |-> [h EXCEPT !.cells = Append(@, h.cells[c])], c |-> Len(h.cells) + 1]

\* lazy(const lazy&) = default: the shared_ptr is copied, the cell shared
copy(h, c) == [h |-> h, c |-> c]

call_Once(h, c, lr) ==
    IF h.cells[c].st = "ready"
    THEN Res(h, h.cells[c].right, 0)
    ELSE Invoke(h, c, lr)

\* val->left()() as a step of its own: the generator the cell was built
\* with runs, whatever the cell holds by now.
call(h, c, lr) ==
    Invoke([h EXCEPT !.cells[c].left = h.cells[c].origin], c, lr)

\* *val = make_right<function<T>>(v)
write(h, c, v) ==
    [h EXCEPT !.cells[c].st = "ready", !.cells[c].right = v,
              !.cells[c].left = NoGen]

\* lazy::status
status(h, c) == IF h.cells[c].st = "ready" THEN "ready" ELSE "deferred"

\* The comparison operators of T
Rel(rel, a, b) ==
    CASE rel = "==" -> a = b
      [] rel = "!=" -> a # b
      [] rel = "<"  -> a.n < b.n
      [] rel = ">"  -> a.n > b.n

compare_Identity(h, rel, l1, l2, lr) ==
    LET h2 == force(force(h, IF lr THEN l1 ELSE l2, lr),
                    IF lr THEN l2 ELSE l1, lr)
    IN  [h |-> h2,
         res |-> CASE rel = "==" -> l1 = l2
                   [] rel = "!=" -> l1 # l2
                   [] OTHER -> Rel(rel, h2.cells[l1].right, h2.cells[l2].right)]

\* operator==, operator!=, operator<, operator> on lazy<T>: *l1 rel *l2,
\* both operator* called, in either order, before the references they
\* returned are compared
compare(h, rel, l1, l2, lr) ==
    LET h2 == force(force(h, IF lr THEN l1 ELSE l2, lr),
                    IF lr THEN l2 ELSE l1, lr)
    IN  [h |-> h2, res |-> Rel(rel, h2.cells[l1].right, h2.cells[l2].right)]

\* A lazy variable: c is the cell its shared_ptr points to; of (ghost) is
\* the variable it was copied from, 0 for one that was built.
Handle(c, of) == [c |-> c, of |-> of]

assign_Value(h, hs, l1, l2) ==
    [h |-> [h EXCEPT !.cells[hs[l1].c].st = h.cells[hs[l2].c].st,
                     !.cells[hs[l1].c].left = h.cells[hs[l2].c].left,
                     !.cells[hs[l1].c].right = h.cells[hs[l2].c].right],
     hs |-> hs]

\* lazy& operator=(const lazy&) = default, on the variables hs: the
\* shared_ptr of l1 is assigned that of l2, no cell is read or written.
assign(h, hs, l1, l2) ==
    [h |-> h,
     hs |-> [k \in DOMAIN hs |->
               IF k = l1 THEN Handle(hs[l2].c, l2)
               ELSE IF hs[k].of = l1 THEN Handle(hs[k].c, 0)
               ELSE hs[k]]]

\* ------------------------------------------------------------ state
VARIABLES
    cells,      \* the heap: Seq of cells
    handles,    \* the caller's lazy variables, in declaration order
    x,          \* an int variable of the caller, passed to defer
    budget,     \* the number of lazy variables the caller may declare
    ctx,        \* the execution contexts inside operator*, by context
    last,       \* the operation that ran last, its result and its events
    met         \* an eitherT over a list (me), a seed z and a function f

vars == <<cells, handles, x, budget, ctx, last, met>>

Op(op, c, c2, ret, res, log) ==
    [op |-> op, c |-> c, c2 |-> c2, ret |-> ret, res |-> res, log |-> log]

H0 == Heap(cells, x, <<>>)

Handles == 1..Len(handles)

Cells == 1..Len(cells)

CellOf(h) == handles[h].c

\* The orders in which the two operands of a call or of a comparison may
\* be evaluated; they differ only when something takes two operands.
Orders ==
    IF \E c \in Cells : cells[c].origin.kind = "append"
    THEN BOOLEAN ELSE {TRUE}

\* A context: pc is where it stands in operator* and force, c the cell of
\* the handle it dereferences, saw what its check `if(*val)` read, tmp the
\* value its invocation of the generator returned.
Idle == [pc |-> "idle", c |-> 0, saw |-> "-", tmp |-> V(0)]

Ctxs == 1..NumCtx

Start(n) ==
    /\ cells = <<>>
    /\ handles = <<>>
    /\ x = 0
    /\ budget = n
    /\ ctx = [t \in Ctxs |-> Idle]
    /\ last = Op("init", 0, 0, V(0), FALSE, <<>>)
    /\ met = [me |-> <<>>, z |-> 0, f |-> "add"]

Init == Start(NumHandles)

\* auto h = <a building operation>: the new cell is bound to a new handle.
Built(op, r) ==
    /\ Len(handles) < budget
    /\ Len(r.h.cells) <= MaxCells
    /\ cells' = r.h.cells
    /\ handles' = Append(handles, Handle(r.c, 0))
    /\ last' = Op(op, r.c, 0, V(0), FALSE, r.h.log)
    /\ UNCHANGED <<x, budget, met, ctx>>

Construct(v) ==
    Built("construct", lazy(H0, Gen("gen", NoFn, 0, 0, V(v), <<>>), "T"))

Defer(k) == Built("defer", defer(H0, "add", <<x, k>>))

Pure(v) == Built("pure", pure(H0, V(v), "T"))

Map(f, l) ==
    /\ cells[CellOf(l)].ty = "T"
    /\ Built("map", map(H0, UserFn(f), CellOf(l), "T"))

Bind(l, f, l2) ==
    /\ cells[CellOf(l)].ty = "T"
    /\ cells[CellOf(l2)].ty = "T"
    /\ f # "captured" => l2 = l
    /\ Built("bind",
             bind(H0, CellOf(l),
                  Fn("user", "f", f, V(0),
                     IF f = "captured" THEN CellOf(l2) ELSE 0), "T"))

Id == Built("id", id(H0))

AppendOp(l1, l2) ==
    /\ cells[CellOf(l1)].ty = "T" /\ cells[CellOf(l2)].ty = "T"
    /\ Built("append", append(H0, CellOf(l1), CellOf(l2)))

\* auto h = l
Copy(l) ==
    /\ Len(handles) < budget
    /\ LET r == copy(H0, CellOf(l))
       IN  /\ Len(r.h.cells) <= MaxCells
           /\ cells' = r.h.cells
           /\ handles' = Append(handles, Handle(r.c, l))
           /\ last' = Op("copy", r.c, 0, V(0), FALSE, r.h.log)
    /\ UNCHANGED <<x, budget, met, ctx>>

\* l1 = l2, lazy& operator=(const lazy&) = default: the shared_ptr of l1 is
\* assigned that of l2; a variable recorded as a copy of l1 no longer is one.
Assign(l1, l2) ==
    /\ l1 # l2
    /\ \E r \in {assign(H0, handles, l1, l2)} :
           /\ cells' = r.h.cells
           /\ handles' = r.hs
           /\ last' = Op("assign", CellOf(l2), CellOf(l1), V(0), FALSE,
                         r.h.log)
    /\ UNCHANGED <<x, budget, met, ctx>>

\* The caller changes its variable.
Mutate(v) ==
    /\ x # v
    /\ x' = v
    /\ last' = Op("mutate", 0, 0, V(0), FALSE, <<>>)
    /\ UNCHANGED <<cells, handles, budget, met, ctx>>

\* *h
Force(h, lr) ==
    /\ \E r \in {deref(H0, CellOf(h), lr)} :
           /\ Len(r.h.cells) <= MaxCells
           /\ cells' = r.h.cells
           /\ last' = Op("force", CellOf(h), 0, r.v, FALSE, r.h.log)
    /\ UNCHANGED <<handles, x, budget, met, ctx>>

\* h.status()
Status(h) ==
    /\ last' = Op("status", CellOf(h), 0, V(0),
                  status(H0, CellOf(h)) = "ready", <<>>)
    /\ UNCHANGED <<cells, handles, x, budget, met, ctx>>

\* h1 rel h2
Compare(rel, h1, h2, lr) ==
    /\ cells[CellOf(h1)].ty = cells[CellOf(h2)].ty
    /\ rel \in {"<", ">"} => cells[CellOf(h1)].ty = "T"
    /\ \E r \in {compare(H0, rel, CellOf(h1), CellOf(h2), lr)} :
           /\ Len(r.h.cells) <= MaxCells
           /\ cells' = r.h.cells
           /\ last' = Op(rel, CellOf(h1), CellOf(h2), V(0), r.res, r.h.log)
    /\ UNCHANGED <<handles, x, budget, met, ctx>>

\* ---- eitherT over lazy

Lefts == {make_left(<<"a">>), make_left(<<"b">>)}

Rights == {make_right(v) : v \in Vals}

\* The eitherT variables that were constructed from a generator.
Sources == {h \in Handles : cells[CellOf(h)].origin.kind = "gen"}

IsE(l) == cells[CellOf(l)].ty = "E"

\* eitherT<L,M> e{m}, with m a lazy<either<L,T>> whose generator yields e
ETConstruct(e) ==
    Built("eitherT", lazy(H0, Gen("gen", NoFn, 0, 0, e, <<>>), "E"))

ETPure(v) == Built("eitherT_pure", eitherT_pure(H0, v))

ETMap(f, l) ==
    /\ IsE(l)
    /\ Built("eitherT_map", eitherT_map(H0, f, CellOf(l)))

ETBindLift(f, l) ==
    /\ IsE(l)
    /\ Built("bind_lift", bind_lift(H0, CellOf(l), f))

ETBindTrans(f, l) ==
    /\ IsE(l)
    /\ Built("bind_trans",
             bind_trans(H0, CellOf(l), Fn("trans", "f", f, V(0), 0)))

ETBindHoist(f, l) ==
    /\ IsE(l)
    /\ Built("bind_hoist", bind_hoist(H0, CellOf(l), f))

ETFail == Built("fail", fail(H0))

ETOrDo(l1, l2) ==
    /\ IsE(l1) /\ IsE(l2)
    /\ Built("orDo", orDo(H0, CellOf(l1), CellOf(l2)))

\* map(g, map(f, l)): the inner lazy is a temporary, its cell lives on in
\* the closure of the outer one
MapMap(g, f, l) ==
    /\ cells[CellOf(l)].ty = "T"
    /\ LET m == map(H0, UserFn(f), CellOf(l), "T")
       IN  Built("map", map(m.h, UserFn(g), m.c, "T"))

ETMapMap(g, f, l) ==
    /\ IsE(l)
    /\ LET m == eitherT_map(H0, f, CellOf(l))
       IN  Built("eitherT_map", eitherT_map(m.h, g, m.c))

\* A lazy or an eitherT x has been constructed; the behaviours build
\* map(id, x), map(g, map(f, x)) and map(compose(g, f), x) and force them.
StartFunctor ==
    \E ty \in {"T", "E"} :
      \E v \in IF ty = "T" THEN {V(n) : n \in Vals} ELSE Lefts \cup Rights :
        LET r == lazy(Heap(<<>>, 0, <<>>), Gen("gen", NoFn, 0, 0, v, <<>>), ty)
        IN  /\ cells = r.h.cells
            /\ handles = <<Handle(r.c, 0)>>
            /\ x = 0
            /\ budget = NumETHandles
            /\ ctx = [t \in Ctxs |-> Idle]
            /\ last = Op("construct", r.c, 0, V(0), FALSE, r.h.log)
            /\ met = [me |-> <<>>, z |-> 0, f |-> "add"]

Pairs == {"inc", "dbl"} \X {"inc", "dbl"}

NextFunctor ==
    \/ \E l \in Sources : Map("id", l)
    \/ \E l \in Sources : ETMap("id", l)
    \/ \E l \in Sources, p \in Pairs : MapMap(p[1], p[2], l)
    \/ \E l \in Sources, p \in Pairs : ETMapMap(p[1], p[2], l)
    \/ \E l \in Sources, p \in Pairs : Map(compose(p[1], p[2]), l)
    \/ \E l \in Sources, p \in Pairs : ETMap(compose(p[1], p[2]), l)
    \/ \E h \in Handles, lr \in Orders : Force(h, lr)

SpecFunctor == StartFunctor /\ [][NextFunctor]_vars

\* foldl(f, z, e) and foldr(f, z, e) on the eitherT over a list
Foldl ==
    /\ LET r == eitherT_foldl(met.f, V(met.z), met.me)
       IN  last' = Op("foldl", 0, 0, r, r # IllFormed, <<>>)
    /\ UNCHANGED <<cells, handles, x, budget, met, ctx>>

Foldr ==
    /\ LET r == eitherT_foldr(met.f, V(met.z), met.me)
       IN  last' = Op("foldr", 0, 0, r, r # IllFormed, <<>>)
    /\ UNCHANGED <<cells, handles, x, budget, met, ctx>>

\* The lists of at most MaxLen eithers.
Mets == UNION {[1..n -> Lefts \cup Rights] : n \in 0..MaxLen}

\* An eitherT over a list has been constructed, and the seed and the
\* function of the fold chosen.
StartFold ==
    /\ cells = <<>>
    /\ handles = <<>>
    /\ x = 0
    /\ budget = 0
    /\ ctx = [t \in Ctxs |-> Idle]
    /\ last = Op("init", 0, 0, V(0), FALSE, <<>>)
    /\ \E m \in Mets, z \in Vals, f \in {"add", "sub"} :
          met = [me |-> m, z |-> z, f |-> f]

NextFold == Foldl \/ Foldr

SpecFold == StartFold /\ [][NextFold]_vars

\* map and the three shapes of bind of the transformer.
NextETBind ==
    \/ \E l \in Sources, f \in {"inc", "dbl"} : ETMap(f, l)
    \/ \E l \in Sources, f \in {"pureInc", "pureDbl"} : ETBindLift(f, l)
    \/ \E l \in Sources, f \in {"inc", "dbl"} : ETBindTrans(f, l)
    \/ \E l \in Sources, f \in {"inc", "dbl"} : ETBindHoist(f, l)
    \/ \E h \in Handles, lr \in Orders : Force(h, lr)

\* One eitherT input e has been constructed; the behaviours map over it and
\* bind it in the three shapes.
StartETBind ==
    \E e \in Lefts \cup Rights :
        LET r == lazy(Heap(<<>>, 0, <<>>), Gen("gen", NoFn, 0, 0, e, <<>>), "E")
        IN  /\ cells = r.h.cells
            /\ handles = <<Handle(r.c, 0)>>
            /\ x = 0
            /\ budget = NumETHandles
            /\ ctx = [t \in Ctxs |-> Idle]
            /\ last = Op("eitherT", r.c, 0, V(0), FALSE, r.h.log)
            /\ met = [me |-> <<>>, z |-> 0, f |-> "add"]

SpecETBind == StartETBind /\ [][NextETBind]_vars

\* The monoidal alternative of the transformer.
NextOrDo ==
    \/ \E e \in Lefts : ETConstruct(e)
    \/ \E v \in Vals : ETPure(v)
    \/ ETFail
    \/ \E l1, l2 \in Handles : ETOrDo(l1, l2)
    \/ \E h \in Handles, lr \in Orders : Force(h, lr)

SpecOrDo == Start(NumETHandles) /\ [][NextOrDo]_vars

\* Chains of map and bind over a constructed lazy, and forcing.
NextMap ==
    \/ \E v \in Vals : Construct(v)
    \/ \E l \in Handles, f \in {"inc", "dbl"} : Map(f, l)
    \/ \E l \in Handles : Bind(l, "pureInc", l)
    \/ \E l \in Handles : Copy(l)
    \/ \E h \in Handles : Force(h, TRUE)

SpecMap == Start(NumETHandles) /\ [][NextMap]_vars

\* bind over constructed and derived lazies, with continuations that
\* build a new lazy or return one they hold, and forcing.
NextBind ==
    \/ \E v \in Vals : Construct(v)
    \/ \E l \in Handles : Map("inc", l)
    \/ \E l, l2 \in Handles, f \in {"pureInc", "deferAdd", "captured"} :
          Bind(l, f, l2)
    \/ \E h \in Handles : Force(h, TRUE)

SpecBind == Start(NumETHandles) /\ [][NextBind]_vars

\* Variables that share and change cells: copies, assignment, status,
\* forcing.
NextAssign ==
    \/ Construct(MaxVal)
    \/ \E l \in Handles : Copy(l)
    \/ \E l1, l2 \in Handles : Assign(l1, l2)
    \/ \E h \in Handles : Force(h, TRUE)
    \/ \E h \in Handles : Status(h)

SpecAssign == Start(NumETHandles) /\ [][NextAssign]_vars

\* The lazy cell: construction, derivation, copies, forcing, status.
Next ==
    \/ \E v \in Vals : Construct(v)
    \/ \E l \in Handles : Map("inc", l)
    \/ \E l, l2 \in Handles, f \in {"pureInc", "captured"} : Bind(l, f, l2)
    \/ \E l1, l2 \in Handles : AppendOp(l1, l2)
    \/ \E l \in Handles : Copy(l)
    \/ \E h \in Handles, lr \in Orders : Force(h, lr)
    \/ \E h \in Handles : Status(h)
    \/ \E rel \in {"==", "<"}, h1, h2 \in Handles, lr \in Orders :
          Compare(rel, h1, h2, lr)

Spec == Init /\ [][Next]_vars

\* Every operation on lazies that share cells, assignment included.
NextShare ==
    \/ Construct(MaxVal)
    \/ \E l \in Handles : Map("inc", l)
    \/ \E l \in Handles : Bind(l, "pureInc", l)
    \/ \E l1, l2 \in Handles : AppendOp(l1, l2)
    \/ \E l \in Handles : Copy(l)
    \/ \E l1, l2 \in Handles : Assign(l1, l2)
    \/ \E h \in Handles, lr \in Orders : Force(h, lr)
    \/ \E h \in Handles : Status(h)
    \/ \E h1, h2 \in Handles : Compare("==", h1, h2, TRUE)

SpecShare == Init /\ [][NextShare]_vars

\* Every building operation, and forcing.
NextBuild ==
    \/ \E v \in Vals : Construct(v)
    \/ \E k \in Vals : Defer(k)
    \/ \E v \in Vals : Pure(v)
    \/ \E l \in Handles, f \in {"inc", "dbl"} : Map(f, l)
    \/ \E l, l2 \in Handles, f \in {"pureInc", "deferAdd", "captured"} :
          Bind(l, f, l2)
    \/ Id
    \/ \E l1, l2 \in Handles : AppendOp(l1, l2)
    \/ \E h \in Handles, lr \in Orders : Force(h, lr)

SpecBuild == Init /\ [][NextBuild]_vars

\* defer, with a caller that changes its variable.
NextDefer ==
    \/ \E k \in Vals : Defer(k)
    \/ \E v \in Vals : Mutate(v)
    \/ \E l \in Handles : Copy(l)
    \/ \E h \in Handles, lr \in Orders : Force(h, lr)

SpecDefer == Init /\ [][NextDefer]_vars

\* Comparison of lazies.
NextCmp ==
    \/ \E v \in Vals : Construct(v)
    \/ \E l \in Handles : Map("inc", l)
    \/ \E l \in Handles : Copy(l)
    \/ \E h \in Handles, lr \in Orders : Force(h, lr)
    \/ \E rel \in {"==", "!=", "<", ">"}, h1, h2 \in Handles, lr \in BOOLEAN :
          Compare(rel, h1, h2, lr)

SpecCmp == Init /\ [][NextCmp]_vars

\* ---- operator* by several contexts, without synchronisation: the steps
\* of force interleave.

\* *h begins: force() reads which side of the either is active.
RaceCheck(t, h) ==
    /\ ctx[t].pc = "idle"
    /\ LET c == CellOf(h)
           s == status(H0, c)
       IN  /\ ctx' = [ctx EXCEPT ![t] =
                        [pc |-> IF s = "ready" THEN "ret" ELSE "call",
                         c |-> c, saw |-> s, tmp |-> V(0)]]
           /\ cells' = [cells EXCEPT ![c].forced = TRUE]
    /\ last' = Op("check", CellOf(h), 0, V(0), FALSE, <<>>)
    /\ UNCHANGED <<handles, x, budget, met>>

\* val->left()(): if another context has stored a value since the check,
\* left() reads the inactive side of the either, which is undefined: the
\* stale generator runs, or the context faults.
RaceCall(t) ==
    /\ ctx[t].pc = "call"
    /\ \E outcome \in IF cells[ctx[t].c].st = "ready"
                      THEN {"runs", "faults"} ELSE {"runs"} :
          IF outcome = "runs"
          THEN LET r == call(H0, ctx[t].c, TRUE)
               IN  /\ cells' = r.h.cells
                   /\ ctx' = [ctx EXCEPT ![t].pc = "write", ![t].tmp = r.v]
                   /\ last' = Op("call", ctx[t].c, 0, r.v, FALSE, r.h.log)
          ELSE /\ ctx' = [ctx EXCEPT ![t].pc = "fault"]
               /\ last' = Op("fault", ctx[t].c, 0, V(0), FALSE, <<>>)
               /\ UNCHANGED cells
    /\ UNCHANGED <<handles, x, budget, met>>

\* *val = make_right(...): a write over another context's write is a
\* data race, and what the cell then holds is any value.
RaceWrite(t) ==
    /\ ctx[t].pc = "write"
    /\ \E v \in IF cells[ctx[t].c].st = "ready"
                THEN {ctx[t].tmp} \cup {V(n) : n \in Vals}
                ELSE {ctx[t].tmp} :
          /\ cells' = write(H0, ctx[t].c, v).cells
          /\ last' = Op("write", ctx[t].c, 0, v, FALSE, <<>>)
    /\ ctx' = [ctx EXCEPT ![t].pc = "ret"]
    /\ UNCHANGED <<handles, x, budget, met>>

\* return **val
RaceReturn(t) ==
    /\ ctx[t].pc = "ret"
    /\ ctx' = [ctx EXCEPT ![t].pc = "done"]
    /\ last' = Op("force", ctx[t].c, 0, cells[ctx[t].c].right, FALSE, <<>>)
    /\ UNCHANGED <<cells, handles, x, budget, met>>

NextRace ==
    \/ \E v \in Vals : Construct(v)
    \/ \E l \in Handles : Copy(l)
    \/ \E t \in Ctxs, h \in Handles : RaceCheck(t, h)
    \/ \E t \in Ctxs : RaceCall(t)
    \/ \E t \in Ctxs : RaceWrite(t)
    \/ \E t \in Ctxs : RaceReturn(t)

SpecRace == Init /\ [][NextRace]_vars

\* ------------------------------------------------------------ properties
\* What a cell's computation denotes: the value of the expression the
\* cell was built from, computed without any cell (the reference the
\* memoised evaluation is compared with).
RECURSIVE Denote(_)
Denote(c) ==
    LET g == cells[c].origin
    IN  CASE g.kind \in {"gen", "pure"} -> g.v
          [] g.kind = "id" -> V(0)
          [] g.kind = "defer" -> V(g.args[1] + g.args[2])
          [] g.kind = "map" /\ g.f.f = "inc" -> V(Denote(g.a).n + 1)
          [] g.kind = "map" /\ g.f.f = "dbl" -> V(Denote(g.a).n * 2)
          [] g.kind = "bind" /\ g.f.f = "pureInc" -> V(Denote(g.a).n + 1)
          [] g.kind = "bind" /\ g.f.f = "deferAdd" -> V(Denote(g.a).n + 1)
          [] g.kind = "bind" /\ g.f.f = "captured" -> Denote(g.f.capc)
          [] g.kind = "append" -> V(Denote(g.a).n + Denote(g.b).n)

\* C1: under totally ordered forcing, through any handle or through a
\* derived cell, a cell's generator has run exactly once if the cell was
\* ever forced and never otherwise, and a force returns the value that
\* one run produced (the value of the cell's computation).
C1_RunsOnce ==
    /\ \A c \in Cells :
          /\ cells[c].runs = IF cells[c].forced THEN 1 ELSE 0
          /\ cells[c].forced => cells[c].right = Denote(c)
    /\ last.op = "force" =>
          /\ cells[last.c].forced
          /\ last.ret = cells[last.c].right

\* C1's case: a cell forced through a handle and through a copy or a
\* derived cell, its generator run once.
C1_Witness ==
    /\ last.op = "force"
    /\ last.log = <<>>
    /\ cells[last.c].runs = 1
    /\ \E d \in Cells :
          /\ cells[d].origin.kind \in {"map", "bind", "append"}
          /\ cells[d].origin.a = last.c
          /\ cells[d].forced

\* C2: a cell is deferred and holds its generator, or ready and holds a
\* value; no step takes a ready cell back or changes its value or removes a
\* cell; a handle that is a copy observes the state of the cell of the
\* handle it was copied from.
C2_Step ==
    /\ \A c \in 1..Len(cells') :
          /\ cells'[c].st \in {"deferred", "ready"}
          /\ cells'[c].st = "deferred" =>
                cells'[c].left = cells'[c].origin /\ cells'[c].left # NoGen
          /\ cells'[c].st = "ready" => cells'[c].left = NoGen
    /\ \A c \in Cells :
          /\ c <= Len(cells')
          /\ cells'[c].origin = cells[c].origin
          /\ cells[c].st = "ready" =>
                cells'[c].st = "ready" /\ cells'[c].right = cells[c].right
    /\ \A h \in 1..Len(handles') :
          handles'[h].of # 0 =>
             LET a == cells'[handles'[h].c]
                 b == cells'[handles'[handles'[h].of].c]
             IN  a.st = b.st /\ a.right = b.right /\ a.left = b.left

C2_OneWay == [][C2_Step]_vars

\* C2's case: a force has just taken a cell from deferred to ready, and a
\* copy of the handle observes it.
C2_Witness ==
    /\ last.op = "force"
    /\ last.log # <<>>
    /\ cells[last.c].st = "ready"
    /\ \E h \in Handles :
          handles[h].of # 0 /\ handles[h].c = last.c

BuildOps == {"construct", "defer", "pure", "map", "bind", "id", "append"}

\* C3: a building operation runs no generator and applies no function,
\* leaves every existing cell as it was, and returns one new cell that
\* reports deferred.
C3_Step ==
    last'.op \in BuildOps =>
       /\ Len(cells') = Len(cells) + 1
       /\ \A c \in Cells : cells'[c] = cells[c]
       /\ last'.c = Len(cells')
       /\ last'.log = <<>>
       /\ status(Heap(cells', x', <<>>), last'.c) = "deferred"
       /\ cells'[last'.c].runs = 0
       /\ cells'[last'.c].apps = 0
       /\ ~cells'[last'.c].forced

C3_BuildIsLazy == [][C3_Step]_vars

\* C3's case: pure(t) has just been built next to a ready cell, and reports
\* deferred.
C3_Witness ==
    /\ last.op = "pure"
    /\ cells[last.c].st = "deferred"
    /\ cells[last.c].origin.kind = "pure"
    /\ \E c \in Cells : cells[c].st = "ready"

Rels == {"==", "!=", "<", ">"}

\* C9: after a comparison both operands are ready, every generator has run
\* once if its cell is ready and never otherwise, and the result is the
\* comparison of the two values, shared cell or not.
C9_CompareForcesBoth ==
    /\ \A c \in Cells :
          cells[c].runs = IF cells[c].st = "ready" THEN 1 ELSE 0
    /\ last.op \in Rels =>
          /\ cells[last.c].st = "ready"
          /\ cells[last.c2].st = "ready"
          /\ last.res = Rel(last.op, cells[last.c].right, cells[last.c2].right)
          /\ last.res = Rel(last.op, Denote(last.c), Denote(last.c2))

\* C9's case: two independent cells with equal values compared equal, at
\* least one of them forced by the comparison.
C9_Witness ==
    /\ last.op = "=="
    /\ last.c # last.c2
    /\ last.res
    /\ last.log # <<>>
    /\ cells[last.c].runs = 1 /\ cells[last.c2].runs = 1

Ran(c) ==
    {t \in Ctxs : /\ ctx[t].c = c
                  /\ ctx[t].saw = "deferred"
                  /\ ctx[t].pc \in {"write", "ret", "done"}}

\* C4: without synchronisation every context whose check found the cell
\* deferred runs the generator itself, whatever the others have done since:
\* the generator has run once per such context, which is more than once
\* when the checks of two contexts precede the first write.
C4_RacingForces ==
    \A c \in Cells : cells[c].runs = Cardinality(Ran(c))

\* C4's case: two contexts forced one cell and its generator ran twice.
C4_Witness ==
    \E c \in Cells :
       /\ cells[c].runs = 2
       /\ \E t, u \in Ctxs :
             /\ t # u
             /\ ctx[t].c = c /\ ctx[t].pc = "done"
             /\ ctx[u].c = c /\ ctx[u].pc = "done"

\* The cells built by monad<eitherT<L,M>>::map and by the three shapes of
\* monad<eitherT<L,M>>::bind, the shape and the function g of a bind cell,
\* and the value of the eitherT a cell was built over.
IsETMap(c) ==
    cells[c].origin.kind = "map" /\ cells[c].origin.f.name = "eitherMap"

IsETBind(c) ==
    cells[c].origin.kind = "bind" /\ cells[c].origin.f.name \in {"lift", "trans"}

Shape(c) ==
    LET f == cells[c].origin.f
    IN  IF f.name = "lift" THEN "lift"
        ELSE IF f.arg = "hoist" THEN "hoist" ELSE "trans"

FnOf(c) ==
    LET f == cells[c].origin.f
    IN  CASE f.f = "pureInc" -> "inc"
          [] f.f = "pureDbl" -> "dbl"
          [] OTHER -> f.f

InputOf(c) == cells[cells[c].origin.a].origin.v

C6_BindShapesAgree ==
    \A c, d \in Cells :
        (/\ IsETBind(c) /\ IsETBind(d)
         /\ cells[c].origin.a = cells[d].origin.a
         /\ FnOf(c) = FnOf(d)
         /\ cells[c].st = "ready" /\ cells[d].st = "ready")
        => /\ cells[c].right = cells[d].right
           /\ cells[c].right =
                IF IsRight(InputOf(c))
                THEN make_right(UserApply(FnOf(c), InputOf(c).n))
                ELSE InputOf(c)

\* C6's case: a hoisted and a lifted bind of one Right input with g = inc
\* have both been forced.
C6_Witness ==
    \E c, d \in Cells :
        /\ IsETBind(c) /\ IsETBind(d)
        /\ Shape(c) = "hoist" /\ Shape(d) = "lift"
        /\ cells[c].origin.a = cells[d].origin.a
        /\ FnOf(c) = "inc" /\ FnOf(d) = "inc"
        /\ cells[c].st = "ready" /\ cells[d].st = "ready"
        /\ IsRight(InputOf(c))
        /\ cells[d].right = make_right(inc(InputOf(c).n))

\* The cells built by orDo(e1, e2), their operands, and the lazies the
\* generator of such a cell constructed while it ran.
IsOrDo(c) ==
    cells[c].origin.kind = "bind" /\ cells[c].origin.f.name = "orDo"

E1(c) == cells[c].origin.a

E2(c) == cells[c].origin.f.capc

MadeBy(c) == {m \in Cells : cells[m].by = c}

\* C7: a forced orDo(e1, e2) is e1's value when that is Right, e2's value
\* when e1 is Left and e2 Right, and Left(l1 ^ l2) with e1's payload first
\* when both are Left; fail() is pure of Left of the empty string.
C7_OrDoResult ==
    /\ \A c \in Cells :
          (IsOrDo(c) /\ cells[c].st = "ready")
          => LET v1 == cells[E1(c)].right
                 v2 == cells[E2(c)].right
             IN  /\ cells[E1(c)].st = "ready"
                 /\ IsRight(v1) => cells[c].right = v1
                 /\ ~IsRight(v1) =>
                      /\ cells[E2(c)].st = "ready"
                      /\ IsRight(v2) => cells[c].right = v2
                      /\ ~IsRight(v2) =>
                           cells[c].right = make_left(v1.l \o v2.l)
    /\ last.op = "fail" =>
          /\ cells[last.c].origin.kind = "pure"
          /\ cells[last.c].origin.v = make_left(<<>>)

\* C7's case: orDo of Left("a") and Left("b") has been forced and is
\* Left("ab").
C7_Witness ==
    \E c \in Cells :
        /\ IsOrDo(c) /\ cells[c].st = "ready"
        /\ cells[E1(c)].right = make_left(<<"a">>)
        /\ cells[E2(c)].right = make_left(<<"b">>)
        /\ cells[c].right = make_left(<<"a", "b">>)

\* C8: the generator of orDo(e1, e2), e2 another lazy than e1, runs e1 and
\* the lazies it constructed and nothing else; it constructs the map over
\* e2 only once e1 is ready and Left, so that a run of e2 it causes comes
\* after e1's run and e1's value, and with e1 Right it causes none.
C8_OrDoSequencing ==
    \A c \in Cells :
        (IsOrDo(c) /\ E1(c) # E2(c))
        => /\ MadeBy(c) # {} => cells[E1(c)].st = "ready"
           /\ \A m \in MadeBy(c) :
                IF IsRight(cells[E1(c)].right)
                THEN cells[m].origin.kind = "pure"
                ELSE /\ cells[m].origin.kind = "map"
                     /\ cells[m].origin.a = E2(c)
           /\ \A i \in 1..Len(last.log) :
                LET e == last.log[i]
                IN  /\ (e.ev = "run" /\ e.by = c)
                        => e.c = E1(c) \/ e.c \in MadeBy(c)
                    /\ (e.ev = "run" /\ e.c = E2(c) /\ e.by \in MadeBy(c))
                        => /\ ~IsRight(cells[E1(c)].right)
                           /\ \A j \in i..Len(last.log) :
                                last.log[j].c # E1(c)

\* C8's case: forcing orDo(e1, e2) ran e1, found it Left, and only then
\* ran e2 from the map the continuation constructed.
C8_Witness ==
    \E c \in Cells :
        /\ IsOrDo(c) /\ E1(c) # E2(c)
        /\ last.op = "force" /\ last.c = c
        /\ \E i, j \in 1..Len(last.log) :
             /\ i < j
             /\ last.log[i] = Ev("run", E1(c), c)
             /\ last.log[j].ev = "run" /\ last.log[j].c = E2(c)
             /\ last.log[j].by \in MadeBy(c)

\* The payloads of the Right elements of a list of eithers, in order.
RECURSIVE RightsOf(_)
RightsOf(m) ==
    IF m = <<>> THEN <<>>
    ELSE IF IsRight(Head(m)) THEN <<Head(m).n>> \o RightsOf(Tail(m))
    ELSE RightsOf(Tail(m))

\* The left and the right fold of f over a list of payloads, from z.
RECURSIVE FoldlOver(_, _, _)
FoldlOver(f, z, ts) ==
    IF ts = <<>> THEN z
    ELSE FoldlOver(f, UserApply2(f, z, Head(ts)), Tail(ts))

RECURSIVE FoldrOver(_, _, _)
FoldrOver(f, z, ts) ==
    IF ts = <<>> THEN z
    ELSE UserApply2(f, Head(ts), FoldrOver(f, z, Tail(ts)))

\* C11: foldl(f, z, e) and foldr(f, z, e) yield M's fold of f over the
\* payloads of the Right elements of e, in order, starting from z; Left
\* elements leave the accumulator as it is.
C11_FoldSkipsLeft ==
    /\ last.op = "foldl" =>
          /\ last.res
          /\ last.ret = V(FoldlOver(met.f, met.z, RightsOf(met.me)))
    /\ last.op = "foldr" =>
          /\ last.res
          /\ last.ret = V(FoldrOver(met.f, met.z, RightsOf(met.me)))

\* The cells built by map, of lazy or of eitherT, and the name of the
\* function each applies.
IsMap(c) ==
    cells[c].origin.kind = "map" /\ cells[c].origin.f.name \in {"user", "eitherMap"}

MapFn(c) == cells[c].origin.f.f

MapArg(c) == cells[c].origin.a

\* C12: a forced map(id, x) has the forced value of x, and a forced
\* map(g, map(f, x)) the forced value of map(compose(g, f), x), for lazy
\* and for eitherT, Left and Right.
C12_FunctorLaws ==
    /\ \A c \in Cells :
          (IsMap(c) /\ MapFn(c) = "id" /\ cells[c].st = "ready")
          => /\ cells[MapArg(c)].st = "ready"
             /\ cells[c].right = cells[MapArg(c)].right
    /\ \A c, d \in Cells :
          (/\ IsMap(c) /\ IsMap(d)
           /\ IsMap(MapArg(c))
           /\ MapArg(MapArg(c)) = MapArg(d)
           /\ MapFn(d) = compose(MapFn(c), MapFn(MapArg(c)))
           /\ cells[c].st = "ready" /\ cells[d].st = "ready")
          => cells[c].right = cells[d].right

\* C12's case: map(inc, map(dbl, x)) and map(compose(inc, dbl), x) of an
\* eitherT x that is Right have both been forced.
C12_Witness ==
    \E c, d \in Cells :
        /\ IsMap(c) /\ IsMap(d) /\ IsMap(MapArg(c))
        /\ MapArg(MapArg(c)) = MapArg(d)
        /\ MapFn(c) = "inc" /\ MapFn(MapArg(c)) = "dbl"
        /\ MapFn(d) = "inc.dbl"
        /\ cells[c].st = "ready" /\ cells[d].st = "ready"
        /\ IsRight(cells[MapArg(d)].right)
        /\ cells[c].right = make_right(inc(dbl(cells[MapArg(d)].right.n)))

\* The events of a log that are applications made by the generator of c.
AppsIn(log, c) == {i \in 1..Len(log) : log[i] = Ev("app", c, c)}

\* What forcing c = map(f, l), a deferred cell, does to c and to l: l is
\* forced first, its generator run only if l was deferred; then f is
\* applied once, to the value of l; the result is returned and stored.
C13_Effect(c) ==
    LET l   == MapArg(c)
        log == last'.log
        n   == Len(log)
    IN  /\ cells'[l].st = "ready"
        /\ cells'[c].st = "ready"
        /\ last'.ret = V(UserApply(MapFn(c), cells'[l].right.n))
        /\ cells'[c].right = last'.ret
        /\ cells'[c].apps = cells[c].apps + 1
        /\ cells'[c].runs = cells[c].runs + 1
        /\ cells'[l].runs =
              cells[l].runs + (IF cells[l].st = "deferred" THEN 1 ELSE 0)
        /\ n >= 3
        /\ log[1] = Ev("run", c, 0)
        /\ log[n - 1] = Ev("app", c, c)
        /\ log[n] = Ev("ready", c, 0)
        /\ AppsIn(log, c) = {n - 1}
        /\ IF cells[l].st = "deferred"
           THEN n >= 5 /\ log[2] = Ev("run", l, c)
                       /\ log[n - 2] = Ev("ready", l, c)
           ELSE n = 3

\* Forcing l alone leaves a deferred map(f, l) as it was.
C13_Alone(c) ==
    (last'.c = MapArg(c) /\ cells[MapArg(c)].ty = "T") => cells'[c] = cells[c]

\* The forces of deferred cells built by map of lazy.
C13_Forced(c) ==
    /\ last'.op = "force"
    /\ IsMap(c) /\ cells[c].ty = "T" /\ cells[c].st = "deferred"

\* C13: forcing a deferred map(f, l) forces l, then applies f once and
\* stores and returns f(value of l); both cells are ready, the generator
\* of l has run only if l was deferred, and every cell other than the
\* map's is left exactly as forcing l alone leaves it (l's cell and the
\* cells l's own generator forces or builds change, no other); forcing l
\* alone leaves the map's cell deferred.
C13_Step ==
    \A c \in Cells :
        C13_Forced(c) =>
           /\ C13_Alone(c)
           /\ last'.c = c =>
                 /\ C13_Effect(c)
                 /\ \E a \in {force(H0, MapArg(c), TRUE)} :
                       /\ Len(cells') = Len(a.cells)
                       /\ \A d \in 1..Len(cells') \ {c} :
                             cells'[d] = a.cells[d]

C13_MapForce == [][C13_Step]_vars

\* C13 as stated: forcing map(f, l) changes the state of no cell other
\* than the map's and l's.
C13_Step_Stated ==
    \A c \in Cells :
        C13_Forced(c) =>
           /\ C13_Alone(c)
           /\ last'.c = c =>
                 /\ C13_Effect(c)
                 /\ Len(cells') = Len(cells)
                 /\ \A d \in Cells \ {c, MapArg(c)} :
                       cells'[d].st = cells[d].st

C13_MapForce_Stated == [][C13_Step_Stated]_vars

\* C13's case: map(g, l) has just been forced with l = map(f, k), l and k
\* still deferred before: all three cells are ready.
C13_Witness ==
    /\ last.op = "force"
    /\ IsMap(last.c) /\ cells[last.c].ty = "T"
    /\ IsMap(MapArg(last.c))
    /\ Len(last.log) = 8
    /\ last.log[2] = Ev("run", MapArg(last.c), last.c)
    /\ last.log[3] = Ev("run", MapArg(MapArg(last.c)), MapArg(last.c))
    /\ cells[last.c].st = "ready"
    /\ cells[MapArg(last.c)].st = "ready"
    /\ cells[MapArg(MapArg(last.c))].st = "ready"

\* The cells built by bind of lazy, the lazy each was given and the
\* continuation each applies.
IsLazyBind(c) ==
    /\ cells[c].origin.kind = "bind" /\ cells[c].origin.f.name = "user"
    /\ cells[c].ty = "T"

BindArg(c) == cells[c].origin.a

BindFn(c) == cells[c].origin.f

\* The value of the lazy the continuation fn returns for n, given the
\* value v of the lazy it holds.
KValue(fn, n, v) ==
    CASE fn.f = "pureInc" -> V(inc(n))
      [] fn.f = "pureDbl" -> V(dbl(n))
      [] fn.f = "deferAdd" -> V(add(n, 1))
      [] fn.f = "captured" -> v

\* C14: forcing a deferred bind(l, f) runs, in this order: the force of l
\* (its generator run only if l is deferred), one application of f, the
\* force of the lazy r that f returned (its generator run only if r is
\* deferred by then), the store into the bind's cell; afterwards l's
\* cell, r's cell and the bind's cell are ready and the bind's cell holds
\* the value of r, which is the value of f(value of l).
C14_Step ==
    \A c \in Cells :
        (/\ last'.op = "force" /\ last'.c = c
         /\ IsLazyBind(c) /\ cells[c].st = "deferred") =>
        \E a \in {force(H0, BindArg(c), TRUE)},
           r \in {d \in 1..Len(cells') :
                    IF BindFn(c).f = "captured"
                    THEN d = BindFn(c).capc
                    ELSE d > Len(cells) /\ cells'[d].by = c},
           i \in AppsIn(last'.log, c) :
          LET l   == BindArg(c)
              log == last'.log
              n   == Len(log)
          IN  /\ AppsIn(log, c) = {i}
              /\ log[1] = Ev("run", c, 0)
              /\ log[n] = Ev("ready", c, 0)
              /\ IF cells[l].st = "deferred"
                 THEN i >= 4 /\ log[2] = Ev("run", l, c)
                             /\ log[i - 1] = Ev("ready", l, c)
                 ELSE i = 2
              /\ IF r > Len(a.cells) \/ a.cells[r].st = "deferred"
                 THEN n >= i + 3 /\ log[i + 1] = Ev("run", r, c)
                                 /\ log[n - 1] = Ev("ready", r, c)
                 ELSE n = i + 1
              /\ cells'[l].st = "ready"
              /\ cells'[r].st = "ready"
              /\ cells'[c].st = "ready"
              /\ cells'[c].right = cells'[r].right
              /\ last'.ret = cells'[c].right
              /\ cells'[c].right =
                    KValue(BindFn(c), cells'[l].right.n, cells'[r].right)
              /\ cells'[c].apps = cells[c].apps + 1

C14_BindForce == [][C14_Step]_vars

\* C14's case: bind(l, f) has just been forced with l deferred and f
\* returning a new lazy: l's generator, f, the new lazy's generator, in
\* that order, and three ready cells.
C14_Witness ==
    /\ last.op = "force"
    /\ IsLazyBind(last.c)
    /\ BindFn(last.c).f = "deferAdd"
    /\ Len(last.log) = 8
    /\ last.log[2] = Ev("run", BindArg(last.c), last.c)
    /\ last.log[4] = Ev("app", last.c, last.c)
    /\ last.log[5] = Ev("run", Len(cells), last.c)
    /\ cells[Len(cells)].by = last.c
    /\ cells[Len(cells)].st = "ready"
    /\ cells[BindArg(last.c)].st = "ready"
    /\ cells[last.c].st = "ready"
    /\ last.ret = V(add(cells[BindArg(last.c)].right.n, 1))

\* C15: status() reports ready exactly for a ready cell, runs no
\* generator and leaves every cell and variable as it was; a copy and an
\* assignment h1 = h2 run no generator and leave every cell as it was,
\* the two cells concerned included; the assignment only makes h1 refer
\* to the cell of h2, and every other variable, one sharing the former
\* cell of h1 included, refers to the cell it referred to.
C15_Step ==
    /\ last'.op = "status" =>
          /\ cells' = cells
          /\ handles' = handles
          /\ last'.log = <<>>
          /\ last'.res = (cells[last'.c].st = "ready")
    /\ last'.op = "copy" =>
          /\ cells' = cells
          /\ last'.log = <<>>
          /\ Len(handles') = Len(handles) + 1
          /\ handles'[Len(handles')].c = last'.c
          /\ last'.c \in Cells
          /\ \A h \in Handles : handles'[h] = handles[h]
    /\ last'.op = "assign" =>
          /\ cells' = cells
          /\ last'.log = <<>>
          /\ Len(handles') = Len(handles)
          /\ \E h1, h2 \in Handles :
                /\ h1 # h2
                /\ CellOf(h1) = last'.c2
                /\ CellOf(h2) = last'.c
                /\ handles'[h1].c = CellOf(h2)
                /\ \A h \in Handles \ {h1} : handles'[h].c = CellOf(h)

C15_ObservationOnly == [][C15_Step]_vars

\* C15's case: h1 = h2 has just been made with h1's former cell deferred
\* and shared by another variable and h2's cell ready: both cells are as
\* they were, and status() has its two answers to give.
C15_Witness ==
    /\ last.op = "assign"
    /\ last.c # last.c2
    /\ cells[last.c].st = "ready"
    /\ cells[last.c2].st = "deferred"
    /\ \E h1, h2, h3 \in Handles :
          /\ h1 # h2
          /\ CellOf(h1) = last.c /\ CellOf(h2) = last.c
          /\ CellOf(h3) = last.c2


=============================================================================
